---------------------------- MODULE Spec2Model ----------------------------
(* A model of app/backend/avatar_service.py: the AvatarService registry of  *)
(* avatar sessions (active_connections), its five aiohttp request handlers  *)
(* and its two token builders.  Handlers are asyncio coroutines on one      *)
(* event loop: a handler runs without interruption from one await to the    *)
(* next, and other handlers run only while it is suspended at an await.     *)
EXTENDS Integers, Sequences, FiniteSets, TLC

\* ------------------------------------------------------------------ bounds
\* Number of requests dispatched in one run of the process.
MaxTasks == 3
\* Number of requests in a run of malformed requests.
MaxMalformed == 2
\* Number of distinct values uuid.uuid4() can draw in one run.
NumUUIDs == 2
\* Last instant the clock reaches, in clock ticks.
MaxNow == 2
\* Clock ticks per second (datetime counts microseconds; seconds are what
\* a JWT NumericDate keeps).
TicksPerSecond == 2

\* ------------------------------------------------------- program constants
\* timedelta(hours=1), in seconds.
Hour == 3600
\* 'expires_in': 3600
ExpiresIn == 3600

TaskIds == 1..MaxTasks

\* self.speech_region = os.environ.get("SPEECH_REGION", "westus2"), with
\* the variable unset; nothing assigns it after construction.
speech_region == "westus2"

\* ------------------------------------------------------------ Python values
\* A value is <<type, payload>>.  Absent marks a key the JSON object lacks.
Absent == <<"absent", "">>
None == <<"NoneType", "">>
PyStr(s) == <<"str", s>>
PyInt(n) == <<"int", n>>
PyList(s) == <<"list", s>>

TypeOf(v) == v[1]
Payload(v) == v[2]

\* str(uuid.uuid4()): the canonical text of the drawn UUID (injective).
UuidStr(u) == "uuid-" \o ToString(u)
UUIDs == {UuidStr(u) : u \in 1..NumUUIDs}

\* Python truth value of a JSON-decoded value (`not connection_id`).
Truthy(v) ==
    CASE TypeOf(v) = "NoneType" -> FALSE
      [] TypeOf(v) = "str" -> Payload(v) # ""
      [] TypeOf(v) = "text" -> Payload(v) # <<>>
      [] TypeOf(v) = "int" -> Payload(v) # 0
      [] TypeOf(v) = "list" -> Payload(v) # "[]"
      [] OTHER -> TRUE

\* Whether a value can be a dict key: `x in d` raises TypeError otherwise.
Hashable(v) == TypeOf(v) # "list"

\* Text strings are sequences of characters, type "text".
PyText(s) == <<"text", s>>
Whitespace == {" ", "\t", "\n"}

RECURSIVE LStrip(_)
LStrip(s) == IF s # <<>> /\ Head(s) \in Whitespace THEN LStrip(Tail(s)) ELSE s

RECURSIVE RStrip(_)
RStrip(s) ==
    IF s # <<>> /\ s[Len(s)] \in Whitespace
    THEN RStrip(SubSeq(s, 1, Len(s) - 1))
    ELSE s

\* str.strip()
Strip(s) == RStrip(LStrip(s))

\* `obj.get(key) or default`: the default also for a null or empty value.
Get_or_default(obj, key, default) ==
    IF TypeOf(obj[key]) = "absent" \/ ~Truthy(obj[key])
    THEN default
    ELSE obj[key]

\* dict.get(key, default) on the decoded JSON object.
Get(obj, key, default) ==
    IF TypeOf(obj[key]) = "absent" THEN default ELSE obj[key]

\* --------------------------------------------------------------- requests
Kinds == {"connect", "speak", "disconnect", "speech_token", "ice_token"}

\* A configuration field of the connect body: not supplied, null, or a
\* string of the client's.
ConfigValues == {Absent, None, PyStr("custom")}

ConnectionIdValues ==
    {Absent, PyStr(""), PyList("[1]")} \cup {PyStr(u) : u \in UUIDs}

TextValues ==
    {Absent, PyText(<<>>), PyText(<<" ", "\t">>), PyText(<<" ", "h", "i">>),
     PyInt(5)}

VoiceValues == {Absent, PyStr("en-GB-RyanNeural")}

\* What `await request.json()` can produce: a JSONDecodeError, a decoded
\* value that is not an object, or a decoded object.
InvalidJson == [shape |-> "invalid"]
NotAnObject == [shape |-> "array"]

ConnectObjects ==
    [shape : {"object"}, character : ConfigValues,
     style : ConfigValues,
     background : ConfigValues]

SpeakObjects ==
    [shape : {"object"}, connection_id : ConnectionIdValues,
     text : TextValues, voice : VoiceValues]

DisconnectObjects ==
    [shape : {"object"}, connection_id : ConnectionIdValues]

Bodies ==
    [kind \in Kinds |->
        {InvalidJson, NotAnObject} \cup
            CASE kind = "connect" -> ConnectObjects
              [] kind = "speak" -> SpeakObjects
              [] kind = "disconnect" -> DisconnectObjects
              [] OTHER -> {}]


\* ------------------------------------------------------------------ state
VARIABLES
    active_connections, \* self.active_connections: connection id -> record
    speech_key,         \* whether SPEECH_KEY is configured
    tasks,              \* the handler invocations, one per request
    running,            \* the task the event loop is executing, if any
    drawn,              \* the values uuid.uuid4() has returned so far
    now                 \* datetime.utcnow(), in ticks

vars == <<active_connections, speech_key, tasks, running, drawn, now>>

NoData ==
    [connection_id |-> None, text |-> None, voice |-> None,
     character |-> None, style |-> None, background |-> None,
     sub |-> "", exp |-> 0, iat |-> 0]

NoResp == [status |-> 0, error |-> "", payload |-> [none |-> TRUE]]

\* A task: the handler's kind, its position, its local variables, and the
\* response it returned or the exception that left it.
IdleTask ==
    [kind |-> "none", pc |-> "idle", data |-> NoData, resp |-> NoResp,
     exc |-> ""]

\* web.json_response(payload)
JsonResponse(payload) == [status |-> 200, error |-> "", payload |-> payload]

\* web.json_response({'error': message}, status=status)
ErrorResponse(status, message) ==
    [status |-> status, error |-> message, payload |-> [none |-> TRUE]]

\* The awaits of the POST handlers: `await request.json()` (position
\* "await_json") and `await asyncio.sleep(0.1)` (position "sleep").  Only
\* there can the event loop run another handler, or cancel this one.
SuspensionPoints_before_mark == {"await_json", "sleep", "mark"}

SuspensionPoints_before_del == {"await_json", "sleep", "del"}

SuspensionPoints == {"await_json", "sleep"}

\* A task may take a step when the loop is executing it, or when the loop
\* is free and the task waits at an await.
CanRun(t) ==
    \/ running = {t}
    \/ running = {} /\ tasks[t].pc \in SuspensionPoints

\* The step of task t that leaves it as `next`: the loop keeps executing t
\* unless t suspended or ended.
Step(t, next) ==
    /\ tasks' = [tasks EXCEPT ![t] = next]
    /\ running' = IF next.pc \in SuspensionPoints \cup {"done"} THEN {} ELSE {t}

At(t, kind, pc) == tasks[t].kind = kind /\ tasks[t].pc = pc /\ CanRun(t)

\* What a piece of straight-line code does with the handler: falls through
\* to the position `pc`, returns a response, or raises.
Pass(pc) == [do |-> "pass", pc |-> pc, resp |-> NoResp, exc |-> ""]
Ret(resp) == [do |-> "return", pc |-> "done", resp |-> resp, exc |-> ""]
Exc(e) == [do |-> "raise", pc |-> "done", resp |-> NoResp, exc |-> e]

\* An exception raised in the try block with no handler around it.
Uncaught(task, e) == [task EXCEPT !.pc = "done", !.exc = e]

\* The same with an except clause that does not cover the exception.
Caught_narrow(task, e) == Uncaught(task, e)

\* except Exception as e: return web.json_response({'error': str(e)},
\* status=500)
Caught(task, e) ==
    [task EXCEPT !.pc = "done", !.resp = ErrorResponse(500, e)]

\* Task t, with locals d, after the outcome o.
After(t, d, o) ==
    LET task == [tasks[t] EXCEPT !.data = d]
    IN  CASE o.do = "pass" -> [task EXCEPT !.pc = o.pc]
          [] o.do = "return" -> [task EXCEPT !.pc = "done", !.resp = o.resp]
          [] OTHER -> Caught(task, o.exc)

\* uuid.uuid4(): 122 random bits.  A value drawn twice in one run has
\* probability below 2^-122 per pair; the model leaves that event out.
\* An identifier made from the registry's size instead.
uuid4_from_size ==
    UUIDs \cap {UuidStr(Cardinality(DOMAIN active_connections) + 1)}

uuid4 == UUIDs \ drawn

Init ==
    /\ active_connections = [k \in {} |-> NoData]
    /\ speech_key \in BOOLEAN
    /\ tasks = [t \in TaskIds |-> IdleTask]
    /\ running = {}
    /\ drawn = {}
    /\ now = 0

\* Requests that will still call uuid4: each needs a value left to draw.
WillDraw ==
    {t \in TaskIds :
        \/ tasks[t].kind = "connect" /\ tasks[t].pc = "await_json"
        \/ tasks[t].kind = "ice_token" /\ tasks[t].pc = "sub"}

\* The router dispatches a request to its handler (setup_routes), which
\* runs to its first await: the POST handlers suspend in request.json(),
\* the GET handlers have no await.
Dispatch(t, kind) ==
    /\ running = {}
    /\ tasks[t].pc = "idle"
    /\ \A u \in TaskIds : u < t => tasks[u].pc # "idle"
    /\ kind \in {"connect", "ice_token"} =>
           Cardinality(UUIDs \ drawn) > Cardinality(WillDraw)
    /\ Step(t, [IdleTask EXCEPT
                   !.kind = kind,
                   !.pc = CASE kind = "speech_token" -> "token"
                            [] kind = "ice_token" -> "sub"
                            [] OTHER -> "await_json"])
    /\ UNCHANGED <<active_connections, speech_key, drawn, now>>

\* The clock advances, whatever the event loop is doing.
Tick ==
    /\ now < MaxNow
    /\ now' = now + 1
    /\ UNCHANGED <<active_connections, speech_key, tasks, running, drawn>>

\* The task is cancelled while suspended: CancelledError is raised at the
\* await; it is a BaseException, which `except Exception` does not catch,
\* so it leaves the handler.
Cancel(t) ==
    /\ running = {}
    /\ tasks[t].pc \in SuspensionPoints
    /\ Step(t, Uncaught(tasks[t], "CancelledError"))
    /\ UNCHANGED <<active_connections, speech_key, drawn, now>>

\* The same on a registry emptied first.
DictSet_reset(d, key, record) == [k \in {key} |-> record]

\* self.active_connections[key] = record
DictSet(d, key, record) ==
    [k \in DOMAIN d \cup {key} |-> IF k = key THEN record ELSE d[k]]

\* del self.active_connections[key]
DictDel_clear(d, key) == [k \in {} |-> d[k]]

DictDel_keep(d, key) == d

DictDel(d, key) == [k \in DOMAIN d \ {key} |-> d[k]]

\* `connection_id in self.active_connections`, for a hashable value: only
\* a str equals a key.
Contains(d, v) == TypeOf(v) = "str" /\ Payload(v) \in DOMAIN d

\* await request.json() and the first data.get: JSONDecodeError for a body
\* that is not JSON, AttributeError for a JSON value with no .get.
Decode(body) ==
    CASE body.shape = "invalid" -> Exc("JSONDecodeError")
      [] body.shape = "array" -> Exc("AttributeError: get")
      [] OTHER -> Pass("decoded")

\* ------------------------------------------------- handle_avatar_connect
\* data = await request.json(), the three data.get(...) with defaults, and
\* connection_id = str(uuid.uuid4()).
ConnectParse(t, body) ==
    /\ At(t, "connect", "await_json")
    /\ IF Decode(body).do = "raise"
       THEN /\ Step(t, After(t, tasks[t].data, Decode(body)))
            /\ UNCHANGED drawn
       ELSE \E u \in uuid4 :
               /\ drawn' = drawn \cup {u}
               /\ Step(t, After(t,
                      [tasks[t].data EXCEPT
                          !.character = Get(body, "character", PyStr("lisa")),
                          !.style =
                              Get(body, "style", PyStr("casual-sitting")),
                          !.background =
                              Get(body, "background", PyStr("#FFFFFF")),
                          !.connection_id = PyStr(u)],
                      Pass("store")))
    /\ UNCHANGED <<active_connections, speech_key, now>>

\* The record stored for a new connection.
NewRecord(d) ==
    [character |-> d.character, style |-> d.style,
     background |-> d.background, created_at |-> now, speaking |-> FALSE]

\* The store into the registry and the response.
ConnectStore(t) ==
    /\ At(t, "connect", "store")
    /\ LET d == tasks[t].data
       IN  /\ active_connections' =
                  DictSet(active_connections, Payload(d.connection_id),
                          NewRecord(d))
           /\ Step(t, After(t, d, Ret(JsonResponse(
                  [connection_id |-> d.connection_id,
                   character |-> d.character, style |-> d.style,
                   background |-> d.background, status |-> "connected"]))))
    /\ UNCHANGED <<speech_key, drawn, now>>

handle_avatar_connect(t, body) == ConnectParse(t, body) \/ ConnectStore(t)

\* --------------------------------------------------- handle_avatar_speak
\* if not text.strip(): the str method of a value that is no str raises.
TextCheck_no_strip(x) ==
    CASE TypeOf(x) # "text" -> Exc("AttributeError: strip")
      [] TypeOf(x) = "text" /\ Payload(x) = <<>> ->
             Ret(ErrorResponse(400, "No text provided"))
      [] OTHER -> Pass("mark")

TextCheck(x) ==
    CASE TypeOf(x) # "text" -> Exc("AttributeError: strip")
      [] TypeOf(x) = "text" /\ Strip(Payload(x)) = <<>> ->
             Ret(ErrorResponse(400, "No text provided"))
      [] OTHER -> Pass("mark")

\* The same without the membership test.
SpeakValidation_no_lookup(d) ==
    IF ~Truthy(d.connection_id)
    THEN Ret(ErrorResponse(400, "Invalid connection"))
    ELSE TextCheck(d.text)

\* if not connection_id or connection_id not in self.active_connections,
\* then the text check.  The membership test hashes the value.
SpeakValidation(d) ==
    LET c == d.connection_id
    IN  CASE ~Truthy(c) -> Ret(ErrorResponse(400, "Invalid connection"))
          [] Truthy(c) /\ ~Hashable(c) -> Exc("TypeError: unhashable")
          [] Truthy(c) /\ Hashable(c) /\ ~Contains(active_connections, c) ->
                 Ret(ErrorResponse(400, "Invalid connection"))
          [] OTHER -> TextCheck(d.text)

\* data = await request.json(), connection_id, text and voice, and the
\* two validations.
SpeakParse(t, body) ==
    /\ At(t, "speak", "await_json")
    /\ IF Decode(body).do = "raise"
       THEN Step(t, After(t, tasks[t].data, Decode(body)))
       ELSE LET d == [tasks[t].data EXCEPT
                         !.connection_id = Get(body, "connection_id", None),
                         !.text = Get(body, "text", PyText(<<>>)),
                         !.voice =
                             Get(body, "voice", PyStr("en-US-AriaNeural"))]
            IN  Step(t, After(t, d, SpeakValidation(d)))
    /\ UNCHANGED <<active_connections, speech_key, drawn, now>>

\* The same with the flag written in every record.
SpeakMark_all(t) ==
    /\ At(t, "speak", "mark")
    /\ active_connections' =
           [k \in DOMAIN active_connections |->
               [active_connections[k] EXCEPT !.speaking = TRUE]]
    /\ Step(t, After(t, tasks[t].data, Pass("sleep")))
    /\ UNCHANGED <<speech_key, drawn, now>>

\* self.active_connections[connection_id]['speaking'] = True, then the
\* handler suspends in asyncio.sleep(0.1).  The subscript raises KeyError
\* for a key the registry lacks.
SpeakMark(t) ==
    /\ At(t, "speak", "mark")
    /\ LET d == tasks[t].data
       IN  IF Contains(active_connections, d.connection_id)
           THEN /\ active_connections' =
                       [active_connections EXCEPT
                           ![Payload(d.connection_id)].speaking = TRUE]
                /\ Step(t, After(t, d, Pass("sleep")))
           ELSE /\ Step(t, After(t, d, Exc("KeyError")))
                /\ UNCHANGED active_connections
    /\ UNCHANGED <<speech_key, drawn, now>>

\* The sleep is over: the flag is cleared when the record is still there,
\* then the response.
SpeakWake_reset(t) ==
    /\ At(t, "speak", "sleep")
    /\ LET d == tasks[t].data
       IN  /\ active_connections' =
                  [k \in DOMAIN active_connections |->
                      IF k = Payload(d.connection_id)
                      THEN [active_connections[k] EXCEPT !.speaking = FALSE]
                      ELSE active_connections[k]]
           /\ Step(t, After(t, d, Ret(JsonResponse(
                  [connection_id |-> d.connection_id, text |-> d.text,
                   voice |-> d.voice, status |-> "speaking"]))))
    /\ UNCHANGED <<speech_key, drawn, now>>

\* The sleep is over: the registry is consulted again, and a speak whose
\* record is gone is refused.
SpeakWake_recheck(t) ==
    /\ At(t, "speak", "sleep")
    /\ LET d == tasks[t].data
       IN  Step(t, After(t, d,
               IF Contains(active_connections, d.connection_id)
               THEN Ret(JsonResponse(
                        [connection_id |-> d.connection_id, text |-> d.text,
                         voice |-> d.voice, status |-> "speaking"]))
               ELSE Ret(ErrorResponse(400, "Invalid connection"))))
    /\ UNCHANGED <<active_connections, speech_key, drawn, now>>

\* The sleep is over: the response.
SpeakWake(t) ==
    /\ At(t, "speak", "sleep")
    /\ LET d == tasks[t].data
       IN  Step(t, After(t, d, Ret(JsonResponse(
               [connection_id |-> d.connection_id, text |-> d.text,
                voice |-> d.voice, status |-> "speaking"]))))
    /\ UNCHANGED <<active_connections, speech_key, drawn, now>>

handle_avatar_speak(t, body) ==
    SpeakParse(t, body) \/ SpeakMark(t) \/ SpeakWake(t)

\* ---------------------------------------------- handle_avatar_disconnect
\* The same without the membership test.
DisconnectValidation_no_lookup(d) ==
    IF Truthy(d.connection_id)
    THEN Pass("del")
    ELSE Ret(ErrorResponse(404, "Connection not found"))

\* if connection_id and connection_id in self.active_connections; the
\* 404 response otherwise.
DisconnectValidation(d) ==
    LET c == d.connection_id
    IN  CASE ~Truthy(c) -> Ret(ErrorResponse(404, "Connection not found"))
          [] Truthy(c) /\ ~Hashable(c) -> Exc("TypeError: unhashable")
          [] Truthy(c) /\ Hashable(c) /\ ~Contains(active_connections, c) ->
                 Ret(ErrorResponse(404, "Connection not found"))
          [] OTHER -> Pass("del")

\* data = await request.json(), connection_id, and the membership test.
DisconnectParse(t, body) ==
    /\ At(t, "disconnect", "await_json")
    /\ IF Decode(body).do = "raise"
       THEN Step(t, After(t, tasks[t].data, Decode(body)))
       ELSE LET d == [tasks[t].data EXCEPT
                         !.connection_id = Get(body, "connection_id", None)]
            IN  Step(t, After(t, d, DisconnectValidation(d)))
    /\ UNCHANGED <<active_connections, speech_key, drawn, now>>

\* del self.active_connections[connection_id], and the response.
DisconnectDel(t) ==
    /\ At(t, "disconnect", "del")
    /\ LET d == tasks[t].data
       IN  IF Contains(active_connections, d.connection_id)
           THEN /\ active_connections' =
                       DictDel(active_connections, Payload(d.connection_id))
                /\ Step(t, After(t, d,
                       Ret(JsonResponse([status |-> "disconnected"]))))
           ELSE /\ Step(t, After(t, d, Exc("KeyError")))
                /\ UNCHANGED active_connections
    /\ UNCHANGED <<speech_key, drawn, now>>

handle_avatar_disconnect(t, body) ==
    DisconnectParse(t, body) \/ DisconnectDel(t)

\* -------------------------------------------------- handle_speech_token
\* get_speech_token: SpeechConfig needs a key (or another credential)
\* besides the region and raises without; the token property of a config
\* just built is empty.
\* The same with a SpeechConfig that accepts a region alone.
get_speech_token_region_only ==
    Ret(JsonResponse([token |-> "", region |-> speech_region,
                      expires_in |-> ExpiresIn]))

get_speech_token ==
    IF speech_key
    THEN Ret(JsonResponse([token |-> "", region |-> speech_region,
                           expires_in |-> ExpiresIn]))
    ELSE Exc("ValueError: SpeechConfig")

handle_speech_token(t) ==
    /\ At(t, "speech_token", "token")
    /\ Step(t, After(t, tasks[t].data, get_speech_token))
    /\ UNCHANGED <<active_connections, speech_key, drawn, now>>

\* ----------------------------------------------------- handle_ice_token
\* 'sub': str(uuid.uuid4()), 'exp': datetime.utcnow() + timedelta(hours=1)
IceExp(t) ==
    /\ At(t, "ice_token", "sub")
    /\ \E u \in uuid4 :
          /\ drawn' = drawn \cup {u}
          /\ Step(t, After(t,
                 [tasks[t].data EXCEPT
                     !.sub = u, !.exp = now + Hour * TicksPerSecond],
                 Pass("iat")))
    /\ UNCHANGED <<active_connections, speech_key, now>>

\* jwt.encode writes a datetime claim as whole seconds since the epoch.
NumericDate(ticks) == ticks \div TicksPerSecond

\* 'iat': datetime.utcnow(), then
\* token = jwt.encode(token_data, secret, algorithm='HS256') and the
\* response: the token is modelled by the claims it carries.
IceIat(t) ==
    /\ At(t, "ice_token", "iat")
    /\ LET d == [tasks[t].data EXCEPT !.iat = now]
       IN  Step(t, After(t, d, Ret(JsonResponse(
               [token |-> [iss |-> "avatar-service", sub |-> d.sub,
                           exp |-> NumericDate(d.exp),
                           iat |-> NumericDate(d.iat)],
                ice_servers |-> <<"stun:stun.l.google.com:19302">>]))))
    /\ UNCHANGED <<active_connections, speech_key, drawn, now>>

handle_ice_token(t) == IceExp(t) \/ IceIat(t)

\* ------------------------------------------------------------------- Next
\* The router, for the given kinds of request and the first n requests.
Arrive(kinds, n) == \E t \in 1..n, kind \in kinds : Dispatch(t, kind)

\* The steps of each registry handler, reading the bodies B(kind).
ConnectStep(B) ==
    \/ \E t \in TaskIds, body \in B["connect"] : ConnectParse(t, body)
    \/ \E t \in TaskIds : ConnectStore(t)

SpeakStep(B) ==
    \/ \E t \in TaskIds, body \in B["speak"] : SpeakParse(t, body)
    \/ \E t \in TaskIds : SpeakMark(t)
    \/ \E t \in TaskIds : SpeakWake(t)

DisconnectStep(B) ==
    \/ \E t \in TaskIds, body \in B["disconnect"] : DisconnectParse(t, body)
    \/ \E t \in TaskIds : DisconnectDel(t)

RegistryStep(B) == ConnectStep(B) \/ SpeakStep(B) \/ DisconnectStep(B)

\* The steps of the two token handlers.
TokenStep ==
    \/ \E t \in TaskIds : handle_speech_token(t)
    \/ \E t \in TaskIds : handle_ice_token(t)

Cancellation == \E t \in TaskIds : Cancel(t)

\* Every request with every body, and the clock.
Next ==
    \/ Arrive(Kinds, MaxTasks)
    \/ RegistryStep(Bodies)
    \/ TokenStep
    \/ Cancellation
    \/ Tick

Spec == Init /\ [][Next]_vars

\* A decoded body whose connection_id, when it has one, names a UUID.
NamesUuid(b) ==
    TypeOf(b.connection_id) = "str" /\ Payload(b.connection_id) \in UUIDs

\* The connect body with no field: {}.
PlainConnect ==
    {b \in ConnectObjects :
        b.character = Absent /\ b.style = Absent /\ b.background = Absent}

\* The five handlers and cancellation, under well-formed requests that name
\* UUIDs, with a text that is blank or not; the clock stands still.
RegistryBodies ==
    [kind \in Kinds |->
        CASE kind = "connect" -> PlainConnect
          [] kind = "speak" ->
                 {b \in SpeakObjects :
                     /\ NamesUuid(b)
                     /\ b.text \in
                            {PyText(<<" ", "h", "i">>), PyText(<<" ", "\t">>)}
                     /\ b.voice = Absent}
          [] kind = "disconnect" -> {b \in DisconnectObjects : NamesUuid(b)}
          [] OTHER -> {}]

NextRegistry ==
    \/ Arrive(Kinds, MaxTasks)
    \/ RegistryStep(RegistryBodies)
    \/ TokenStep
    \/ Cancellation

SpecRegistry == Init /\ [][NextRegistry]_vars

\* The three registry handlers under speak requests with every
\* connection_id and every text.
RegistryKinds == {"connect", "speak", "disconnect"}

SpeakBodies ==
    [kind \in Kinds |->
        CASE kind = "connect" -> PlainConnect
          [] kind = "speak" ->
                 {b \in SpeakObjects :
                     /\ b.connection_id # PyList("[1]")
                     /\ b.text # PyInt(5)
                     /\ b.voice = Absent}
          [] kind = "disconnect" -> {b \in DisconnectObjects : NamesUuid(b)}
          [] OTHER -> {}]

NextSpeak == Arrive(RegistryKinds, MaxTasks) \/ RegistryStep(SpeakBodies)

\* The service constructed with SPEECH_KEY set.
InitConfigured == Init /\ speech_key = TRUE

SpecSpeak == InitConfigured /\ [][NextSpeak]_vars

\* Speak and disconnect requests racing on records that exist from the
\* start: the state after some connects (with no body fields) and speaks
\* have been served.
InitRegistered ==
    /\ now = 0
    /\ drawn \in (SUBSET UUIDs) \ {{}}
    /\ active_connections \in
           [drawn -> {[NewRecord([character |-> PyStr("lisa"),
                                  style |-> PyStr("casual-sitting"),
                                  background |-> PyStr("#FFFFFF")])
                          EXCEPT !.speaking = b] : b \in BOOLEAN}]
    /\ speech_key = TRUE
    /\ tasks = [t \in TaskIds |-> IdleTask]
    /\ running = {}

RaceKinds == {"speak", "disconnect"}

NextRace ==
    \/ Arrive(RaceKinds, MaxTasks)
    \/ SpeakStep(RegistryBodies)
    \/ DisconnectStep(RegistryBodies)

SpecRace == InitRegistered /\ [][NextRace]_vars

\* The same race with requests that may be cancelled at their awaits.
NextInterrupted == NextRace \/ Cancellation

SpecInterrupted == InitRegistered /\ [][NextInterrupted]_vars

\* The two token handlers and the clock.
TokenKinds == {"speech_token", "ice_token"}

NextTokens == Arrive(TokenKinds, MaxTasks) \/ TokenStep \/ Tick

SpecTokens == Init /\ [][NextTokens]_vars

\* The five handlers and cancellation under malformed requests: a body
\* that is not JSON, a JSON value that is no object, fields of the wrong
\* type.
MalformedBodies ==
    [kind \in Kinds |->
        {InvalidJson, NotAnObject} \cup
            CASE kind = "connect" -> PlainConnect
              [] kind = "speak" ->
                     {b \in SpeakObjects :
                         /\ b.connection_id \in
                                {PyList("[1]")} \cup {PyStr(u) : u \in UUIDs}
                         /\ b.text \in {PyInt(5), PyText(<<" ", "h", "i">>)}
                         /\ b.voice = Absent}
              [] kind = "disconnect" ->
                     {b \in DisconnectObjects :
                         b.connection_id \in
                             {PyList("[1]")} \cup {PyStr(u) : u \in UUIDs}}
              [] OTHER -> {}]

NextMalformed ==
    \/ Arrive(Kinds, MaxMalformed)
    \/ RegistryStep(MalformedBodies)
    \/ TokenStep
    \/ Cancellation

SpecMalformed == Init /\ [][NextMalformed]_vars

\* Connect requests with every subset of the three configuration fields
\* supplied (the character also as null); the clock stands still.
ConnectBodies ==
    [kind \in Kinds |->
        CASE kind = "connect" ->
                 {b \in ConnectObjects :
                     b.style # None /\ b.background # None}
          [] OTHER -> {}]

ConnectKinds == {"connect"}

NextConnect == Arrive(ConnectKinds, MaxTasks) \/ ConnectStep(ConnectBodies)

SpecConnect == Init /\ [][NextConnect]_vars

\* Records made at different times, under speaks with a text to say,
\* disconnects and cancellation.
RecordBodies ==
    [kind \in Kinds |->
        CASE kind = "connect" -> PlainConnect
          [] kind = "speak" ->
                 {b \in SpeakObjects :
                     /\ NamesUuid(b)
                     /\ b.text = PyText(<<" ", "h", "i">>)
                     /\ b.voice = Absent}
          [] kind = "disconnect" -> {b \in DisconnectObjects : NamesUuid(b)}
          [] OTHER -> {}]

NextRecords ==
    \/ Arrive(RegistryKinds, MaxTasks)
    \/ RegistryStep(RecordBodies)
    \/ Cancellation
    \/ Tick

SpecRecords == InitConfigured /\ [][NextRecords]_vars

\* ---------------------------------------------------------------- history
\* What the finished requests tell about the past.
Returned(t, kind, status) ==
    /\ tasks[t].kind = kind
    /\ tasks[t].pc = "done"
    /\ tasks[t].exc = ""
    /\ tasks[t].resp.status = status

\* The connection_id a successful connect returned.
IssuedBy(t) == Payload(tasks[t].resp.payload.connection_id)

Connects == {t \in TaskIds : Returned(t, "connect", 200)}

\* The identifiers successful connects have returned.
Issued == {IssuedBy(t) : t \in Connects}

Disconnects == {t \in TaskIds : Returned(t, "disconnect", 200)}

\* The identifiers successful disconnects have named.
Disconnected == {Payload(tasks[t].data.connection_id) : t \in Disconnects}

\* Task t resumes from `await request.json()` in this step (it is not
\* cancelled there) in the handler of the given kind.
Processes(t, kind) ==
    /\ tasks[t].kind = kind
    /\ tasks[t].pc = "await_json"
    /\ tasks'[t].pc # "await_json"
    /\ tasks'[t].exc = ""

\* The body of task t decoded to a JSON object.
Decoded(t) ==
    tasks[t].resp.error \notin {"JSONDecodeError", "AttributeError: get"}

\* The texts `not text.strip()` holds of: empty or whitespace only.
BlankTexts == {PyText(<<>>), PyText(<<" ", "\t">>)}

\* ------------------------------------------------------------------ claims
\* C1: every successful connect returns an identifier no earlier connect
\* returned (also when that identifier's record has been removed since),
\* and adds exactly one record under it, leaving the others as they were;
\* so no two successful connects ever returned the same connection_id.
C1_UniqueConnectionId ==
    [][/\ \A t \in TaskIds :
             (tasks[t].pc = "store" /\ Returned(t, "connect", 200)') =>
                 LET id == IssuedBy(t)'
                 IN  /\ id \notin Issued
                     /\ id \notin DOMAIN active_connections
                     /\ DOMAIN active_connections' =
                            DOMAIN active_connections \cup {id}
                     /\ \A k \in DOMAIN active_connections :
                            active_connections'[k] = active_connections[k]
       /\ \A t, u \in Connects' : t # u => IssuedBy(t)' # IssuedBy(u)'
      ]_vars

\* Two connects have succeeded, the first one's record removed since.
C1_Witness ==
    \E t, u \in Connects :
        /\ t # u
        /\ IssuedBy(t) \in Disconnected
        /\ IssuedBy(u) \in DOMAIN active_connections

\* C2: a connection identifier is a key of the registry exactly when a
\* successful connect returned it and no successful disconnect has named
\* it since; nothing else adds or removes a record.
C2_RegistryIffLive == DOMAIN active_connections = Issued \ Disconnected

\* One issued identifier is still registered, another has been removed.
C2_Witness == Issued \ Disconnected # {} /\ Disconnected # {}

C4_SpeakBlankIs400 ==
    [][\A t \in TaskIds :
          (/\ Processes(t, "speak")
           /\ Decoded(t)'
           /\ Contains(active_connections, tasks'[t].data.connection_id)
           /\ tasks'[t].data.text \in BlankTexts)
          => /\ tasks'[t].pc = "done"
             /\ tasks'[t].resp = ErrorResponse(400, "No text provided")
             /\ active_connections' = active_connections
      ]_vars

\* A whitespace-only speak was refused for a registered identifier whose
\* record is not speaking.
C4_Witness ==
    \E t \in TaskIds :
        /\ Returned(t, "speak", 400)
        /\ tasks[t].data.text = PyText(<<" ", "\t">>)
        /\ Contains(active_connections, tasks[t].data.connection_id)
        /\ ~active_connections[Payload(tasks[t].data.connection_id)].speaking

\* C5: a disconnect that finds its connection_id registered removes the
\* record and answers 200 {status: disconnected}; a disconnect on an
\* identifier already disconnected answers 404 (Connection not found); so
\* at most one disconnect succeeds per issued identifier.
C5_DisconnectOnce ==
    [][/\ \A t \in TaskIds :
             (/\ Processes(t, "disconnect")
              /\ Decoded(t)'
              /\ TypeOf(tasks'[t].data.connection_id) = "str")
             => LET c == tasks'[t].data.connection_id
                IN  /\ Contains(active_connections, c) => tasks'[t].pc = "del"
                    /\ Payload(c) \in Disconnected =>
                           /\ tasks'[t].pc = "done"
                           /\ tasks'[t].resp =
                                  ErrorResponse(404, "Connection not found")
       /\ \A t \in TaskIds :
             (tasks[t].pc = "del" /\ tasks'[t].pc # "del") =>
                 /\ tasks'[t].pc = "done"
                 /\ tasks'[t].resp = JsonResponse([status |-> "disconnected"])
                 /\ ~Contains(active_connections', tasks[t].data.connection_id)
       /\ \A t, u \in Disconnects' :
             t # u => tasks'[t].data.connection_id # tasks'[u].data.connection_id
      ]_vars

\* Two disconnects on one identifier have ended: 200, then 404.
C5_Witness ==
    \E t \in Disconnects, u \in TaskIds :
        /\ Returned(u, "disconnect", 404)
        /\ tasks[u].data.connection_id = tasks[t].data.connection_id

\* C6: once a disconnect on a connection_id has succeeded, the record is
\* gone, and every speak the handler checks afterwards on that identifier
\* is answered 400 (Invalid connection), whatever its text.
C6_SpeakAfterDisconnectIs400 ==
    [][/\ \A t \in TaskIds :
             (/\ Processes(t, "speak")
              /\ Decoded(t)'
              /\ TypeOf(tasks'[t].data.connection_id) = "str"
              /\ Payload(tasks'[t].data.connection_id) \in Disconnected)
             => /\ tasks'[t].pc = "done"
                /\ tasks'[t].resp = ErrorResponse(400, "Invalid connection")
       /\ Disconnected' \cap DOMAIN active_connections' = {}
      ]_vars

\* A speak with a text to say was refused for a disconnected identifier.
C6_Witness ==
    \E t \in TaskIds :
        /\ Returned(t, "speak", 400)
        /\ tasks[t].data.text = PyText(<<" ", "h", "i">>)
        /\ TypeOf(tasks[t].data.connection_id) = "str"
        /\ Payload(tasks[t].data.connection_id) \in Disconnected

\* The speak of task s and the disconnect of task d name the same
\* identifier, one registered when the run began; the speak has a text to
\* say and no other disconnect names the identifier.
Racing(s, d) ==
    /\ tasks[s].kind = "speak"
    /\ tasks[d].kind = "disconnect"
    /\ TypeOf(tasks[s].data.connection_id) = "str"
    /\ tasks[s].data.connection_id = tasks[d].data.connection_id
    /\ Payload(tasks[s].data.connection_id) \in drawn
    /\ tasks[s].data.text \notin BlankTexts
    /\ \A u \in TaskIds \ {d} :
          tasks[u].kind = "disconnect" =>
              tasks[u].data.connection_id # tasks[d].data.connection_id

\* C7: a speak with a text to say and a disconnect race on one registered
\* identifier.  A speak that checks the registry after the removal is
\* answered 400 (Invalid connection); one that checks before it goes on to
\* mark the record, finds it still there, and is answered 200 when its
\* sleep ends.  When both have ended the disconnect was answered 200, the
\* record is gone, and no handler raised.
C7_SpeakDisconnectRace ==
    [][/\ \A s \in TaskIds :
             (/\ Processes(s, "speak")
              /\ TypeOf(tasks'[s].data.connection_id) = "str"
              /\ tasks'[s].data.text \notin BlankTexts)
             => IF Contains(active_connections, tasks'[s].data.connection_id)
                THEN tasks'[s].pc = "mark"
                ELSE /\ tasks'[s].pc = "done"
                     /\ tasks'[s].resp =
                            ErrorResponse(400, "Invalid connection")
       /\ \A s \in TaskIds :
             (tasks[s].pc = "mark" /\ tasks'[s].pc # "mark") =>
                 /\ tasks'[s].pc = "sleep"
                 /\ active_connections'[Payload(tasks[s].data.connection_id)]
                        .speaking
       /\ \A s \in TaskIds :
             (tasks[s].pc = "sleep" /\ tasks'[s].pc # "sleep") =>
                 /\ Returned(s, "speak", 200)'
                 /\ tasks'[s].resp.payload.status = "speaking"
       /\ \A s, d \in TaskIds :
             (Racing(s, d)' /\ tasks'[s].pc = "done" /\ tasks'[d].pc = "done")
             => /\ tasks'[d].resp = JsonResponse([status |-> "disconnected"])
                /\ ~Contains(active_connections', tasks'[d].data.connection_id)
                /\ tasks'[s].resp.status \in {200, 400}
       /\ \A t \in TaskIds : tasks'[t].exc = "" /\ tasks'[t].resp.status # 500
      ]_vars

\* Both outcomes on one identifier: a speak answered 200, another answered
\* 400, and the disconnect answered 200.
C7_Witness ==
    \E s, r \in TaskIds, d \in Disconnects :
        /\ Racing(s, d)
        /\ Racing(r, d)
        /\ Returned(s, "speak", 200)
        /\ Returned(r, "speak", 400)

\* Task t is between its check (or its draw of an identifier) and the
\* write to the registry that the check allows.
InCritical(t) == tasks[t].pc \in {"store", "mark", "del"}

\* C8: no handler runs between another handler's membership check and its
\* insert, flag write or delete: the next step that touches a task or the
\* registry is that handler's own write, made on the registry its check
\* saw.
C8_CheckThenWriteAtomic ==
    [][\A t \in TaskIds :
          InCritical(t) =>
              \/ tasks' = tasks /\ active_connections' = active_connections
              \/ LET key == Payload(tasks[t].data.connection_id)
                 IN  /\ \A u \in TaskIds \ {t} : tasks'[u] = tasks[u]
                     /\ tasks'[t].pc # tasks[t].pc
                     /\ \A k \in DOMAIN active_connections \ {key} :
                            /\ k \in DOMAIN active_connections'
                            /\ active_connections'[k] = active_connections[k]
                     /\ CASE tasks[t].pc = "store" ->
                                 /\ key \notin DOMAIN active_connections
                                 /\ key \in DOMAIN active_connections'
                          [] tasks[t].pc = "mark" ->
                                 /\ key \in DOMAIN active_connections
                                 /\ active_connections'[key].speaking
                          [] OTHER ->
                                 /\ key \in DOMAIN active_connections
                                 /\ key \notin DOMAIN active_connections'
      ]_vars

\* A disconnect is between its check and its delete while a speak on the
\* same identifier is suspended in its sleep.
C8_Witness ==
    \E t, u \in TaskIds :
        /\ tasks[t].pc = "del"
        /\ tasks[u].pc = "sleep"
        /\ tasks[u].data.connection_id = tasks[t].data.connection_id

\* C9: in every ICE token issued, exp - iat is exactly one hour.
C9_ExpiryIsIssuedPlusHour ==
    \A t \in TaskIds :
        Returned(t, "ice_token", 200) =>
            tasks[t].resp.payload.token.exp
                - tasks[t].resp.payload.token.iat = Hour

\* The statuses a handler answers with.
Statuses == {200, 400, 404, 500}

\* Task t ended by returning a response: a status of the four, and an
\* error message unless the status is 200.
Answered(t) ==
    /\ tasks[t].exc = ""
    /\ tasks[t].resp.status \in Statuses
    /\ tasks[t].resp.status # 200 => tasks[t].resp.error # ""

\* C10 as stated: every invocation that ends, ends by returning such a
\* response, also one cancelled while suspended.
C10_EveryInvocationAnswered ==
    \A t \in TaskIds : tasks[t].pc = "done" => Answered(t)

\* C10, amended: an invocation that ends without being cancelled ends by
\* returning such a response, whatever the body; one cancelled while
\* suspended in request.json() or in the sleep ends with CancelledError
\* leaving the handler, and no response.
C10_AnsweredUnlessCancelled ==
    \A t \in TaskIds :
        tasks[t].pc = "done" =>
            \/ Answered(t)
            \/ /\ tasks[t].exc = "CancelledError"
               /\ tasks[t].resp = NoResp
               /\ tasks[t].kind \in RegistryKinds

\* A speak whose text is a number was answered 500 with the error's
\* message.
C10_Witness ==
    \E t \in TaskIds :
        /\ Returned(t, "speak", 500)
        /\ tasks[t].data.text = PyInt(5)
        /\ tasks[t].resp.error = "AttributeError: strip"

\* Task t ends in this step by returning a response of the given kind of
\* handler.
Responds(t, kind) ==
    /\ tasks[t].pc # "done"
    /\ tasks'[t].kind = kind
    /\ tasks'[t].pc = "done"
    /\ tasks'[t].exc = ""

\* C11: a connect, speak or disconnect that is answered 400, 404 or 500 is
\* answered in the handler's first step after request.json(), and that step
\* leaves the registry as it was: the request has written nothing.  A
\* request answered 200 has made exactly one write: the connect one insert
\* and the disconnect one delete, in the step that answers; the speak one
\* flag set, in the step before its sleep, and nothing when it answers.
\* No other step changes the registry.
C11_NoPartialSuccess ==
    [][/\ \A t \in TaskIds, kind \in RegistryKinds :
             (Responds(t, kind) /\ tasks'[t].resp.status # 200) =>
                 /\ tasks[t].pc = "await_json"
                 /\ active_connections' = active_connections
       /\ \A t \in TaskIds :
             (Responds(t, "connect") /\ tasks'[t].resp.status = 200) =>
                 /\ tasks[t].pc = "store"
                 /\ IssuedBy(t)' \notin DOMAIN active_connections
                 /\ DOMAIN active_connections' =
                        DOMAIN active_connections \cup {IssuedBy(t)'}
                 /\ \A k \in DOMAIN active_connections :
                        active_connections'[k] = active_connections[k]
       /\ \A t \in TaskIds :
             (Responds(t, "disconnect") /\ tasks'[t].resp.status = 200) =>
                 /\ tasks[t].pc = "del"
                 /\ Contains(active_connections, tasks[t].data.connection_id)
                 /\ DOMAIN active_connections' =
                        DOMAIN active_connections
                            \ {Payload(tasks[t].data.connection_id)}
                 /\ \A k \in DOMAIN active_connections' :
                        active_connections'[k] = active_connections[k]
       /\ \A t \in TaskIds :
             (Responds(t, "speak") /\ tasks'[t].resp.status = 200) =>
                 /\ tasks[t].pc = "sleep"
                 /\ active_connections' = active_connections
       /\ \A t \in TaskIds :
             (tasks[t].pc # "sleep" /\ tasks'[t].pc = "sleep") =>
                 /\ tasks[t].pc = "mark"
                 /\ active_connections' =
                        [active_connections EXCEPT
                            ![Payload(tasks[t].data.connection_id)].speaking =
                                TRUE]
       /\ active_connections' # active_connections =>
             \E t \in TaskIds :
                 \/ Responds(t, "connect") /\ tasks'[t].resp.status = 200
                 \/ Responds(t, "disconnect") /\ tasks'[t].resp.status = 200
                 \/ tasks[t].pc = "mark" /\ tasks'[t].pc = "sleep"
      ]_vars

\* A speak whose text is a number was answered 500 after its connection_id
\* passed the membership test; the record it names is not speaking.
C11_Witness ==
    \E t \in TaskIds :
        /\ Returned(t, "speak", 500)
        /\ tasks[t].resp.error = "AttributeError: strip"
        /\ Contains(active_connections, tasks[t].data.connection_id)
        /\ ~active_connections[Payload(tasks[t].data.connection_id)].speaking

\* What the client's body asks for in a configuration field: its value
\* when it supplies the field, the default otherwise.
Asked(body, key, default) ==
    IF body[key] = Absent THEN default ELSE body[key]

\* C12: a connect whose body supplies any subset of character, style and
\* background keeps the client's value of each field supplied (null
\* included) and takes lisa, casual-sitting, #FFFFFF for each one missing;
\* the record it stores has these three values and speaking = false, under
\* the identifier returned, and the response echoes the same three values
\* with status connected.
C12_ConnectDefaultsAndEcho ==
    [][/\ \A t \in TaskIds, body \in ConnectBodies["connect"] :
             ConnectParse(t, body) =>
                 /\ tasks'[t].pc = "store"
                 /\ tasks'[t].data.character =
                        Asked(body, "character", PyStr("lisa"))
                 /\ tasks'[t].data.style =
                        Asked(body, "style", PyStr("casual-sitting"))
                 /\ tasks'[t].data.background =
                        Asked(body, "background", PyStr("#FFFFFF"))
       /\ \A t \in TaskIds :
             (tasks[t].kind = "connect" /\ tasks[t].pc = "store"
                  /\ tasks'[t].pc # "store") =>
                 LET d == tasks[t].data
                     r == tasks'[t].resp
                 IN  /\ Returned(t, "connect", 200)'
                     /\ r.payload =
                            [connection_id |-> d.connection_id,
                             character |-> d.character, style |-> d.style,
                             background |-> d.background,
                             status |-> "connected"]
                     /\ active_connections'[Payload(d.connection_id)] =
                            [character |-> r.payload.character,
                             style |-> r.payload.style,
                             background |-> r.payload.background,
                             created_at |-> now, speaking |-> FALSE]
      ]_vars

\* Two records stored: one from a body with a null character and no style,
\* one from a body with a style and nothing else.
C12_Witness ==
    \E t, u \in Connects :
        /\ active_connections[IssuedBy(t)] =
               [character |-> None, style |-> PyStr("casual-sitting"),
                background |-> PyStr("custom"), created_at |-> 0,
                speaking |-> FALSE]
        /\ active_connections[IssuedBy(u)] =
               [character |-> PyStr("lisa"), style |-> PyStr("custom"),
                background |-> PyStr("#FFFFFF"), created_at |-> 0,
                speaking |-> FALSE]

\* C13: every connect that is answered, whatever its body, is answered 200
\* with a connection_id; no connect is answered with an error.
C13_ConnectAlwaysSucceeds ==
    \A t \in TaskIds :
        (tasks[t].kind = "connect" /\ tasks[t].pc = "done"
             /\ tasks[t].exc = "") =>
            /\ tasks[t].resp.status = 200
            /\ tasks[t].resp.error = ""
            /\ TypeOf(tasks[t].resp.payload.connection_id) = "str"

\* The speaks naming the identifier k that wrote its flag: those in their
\* sleep, and those that have ended in the given ways after it.
Marked(k, ends) ==
    {t \in TaskIds :
        /\ tasks[t].kind = "speak"
        /\ tasks[t].data.connection_id = PyStr(k)
        /\ \/ tasks[t].pc = "sleep"
           \/ /\ tasks[t].pc = "done"
              /\ <<tasks[t].resp.status, tasks[t].exc>> \in ends}

\* From one state to the next, a record that stays keeps its character,
\* style, background and created_at; its flag changes only from false to
\* true, in the step of a speak naming it that goes from the flag write
\* into its sleep.
RecordsKept ==
    \A k \in DOMAIN active_connections \cap DOMAIN active_connections' :
        LET old == active_connections[k]
            new == active_connections'[k]
        IN  /\ new.character = old.character
            /\ new.style = old.style
            /\ new.background = old.background
            /\ new.created_at = old.created_at
            /\ old.speaking => new.speaking
            /\ new.speaking # old.speaking =>
                   \E t \in TaskIds :
                       /\ tasks[t].kind = "speak"
                       /\ tasks[t].pc = "mark"
                       /\ tasks'[t].pc = "sleep"
                       /\ tasks[t].data.connection_id = PyStr(k)

\* C14 as stated: a record's four configuration values never change, its
\* flag only goes from false to true, and a flag that is true was written
\* by a speak naming the record that is answered 200 (or is still in its
\* sleep, on its way to the answer).
C14_FlagOnlyBySuccessfulSpeak ==
    [][/\ RecordsKept
       /\ \A k \in DOMAIN active_connections' :
             active_connections'[k].speaking =>
                 Marked(k, {<<200, "">>})' # {}
      ]_vars

\* C14, amended: the same, but the speak that wrote the flag either is
\* answered 200 or is cancelled in its sleep and answers nothing; the flag
\* stays true in both cases.
C14_FlagOnlyBySpeakPastValidation ==
    [][/\ RecordsKept
       /\ \A k \in DOMAIN active_connections' :
             active_connections'[k].speaking =>
                 Marked(k, {<<200, "">>, <<0, "CancelledError">>})' # {}
      ]_vars

\* Two records made at different times; the older one is speaking though
\* the only speak naming it was cancelled in its sleep, the newer one is
\* not speaking.
C14_Witness ==
    \E k, j \in DOMAIN active_connections :
        /\ active_connections[k].speaking
        /\ Marked(k, {<<0, "CancelledError">>}) # {}
        /\ Marked(k, {<<200, "">>}) = {}
        /\ ~active_connections[j].speaking
        /\ active_connections[j].created_at > active_connections[k].created_at

\* Task t is a token request that takes a step.
TokenMoves(t) ==
    /\ tasks'[t] # tasks[t]
    /\ tasks'[t].kind \in TokenKinds

\* C15: a step of a speech-token or ice-token request changes neither the
\* registry, nor the configuration, nor any other request.  The answer of
\* a speech-token request is decided by the configured key alone: with a
\* key it is 200 with the configured region and expires_in = 3600, without
\* one it is 500 with the error's message; an ice-token request is answered
\* 200 with a token, whatever the registry holds and whatever came before.
C15_TokensStateless ==
    [][\A t \in TaskIds :
          TokenMoves(t) =>
              /\ active_connections' = active_connections
              /\ speech_key' = speech_key
              /\ \A u \in TaskIds \ {t} : tasks'[u] = tasks[u]
              /\ (tasks'[t].kind = "speech_token" /\ tasks[t].pc # "idle") =>
                     /\ tasks'[t].pc = "done"
                     /\ tasks'[t].exc = ""
                     /\ tasks'[t].resp =
                            IF speech_key
                            THEN JsonResponse(
                                     [token |-> "", region |-> "westus2",
                                      expires_in |-> 3600])
                            ELSE ErrorResponse(
                                     500, "ValueError: SpeechConfig")
              /\ (tasks'[t].kind = "ice_token" /\ tasks'[t].pc = "done") =>
                     /\ Returned(t, "ice_token", 200)'
                     /\ tasks'[t].resp.payload.token.iss = "avatar-service"
      ]_vars

\* While the registry holds a record, a speech-token request has been
\* refused for want of a key and an ice-token request answered.
C15_Witness ==
    \E t, u \in TaskIds :
        /\ active_connections # <<>>
        /\ Returned(t, "speech_token", 500)
        /\ Returned(u, "ice_token", 200)

\* Task t is a speak or disconnect request that takes a step after its
\* dispatch.
SessionMoves(t) ==
    /\ tasks'[t] # tasks[t]
    /\ tasks[t].kind \in RaceKinds

\* C16: a step of a speak or disconnect naming the identifier X leaves
\* every record under another key in the registry, with the values it had.
\* What the handler does after request.json() is decided by X's presence
\* and, for a speak, the text: a speak goes on to write the flag when X is
\* registered and the text is not blank, and is answered 400 otherwise; a
\* disconnect goes on to delete when X is registered and is answered 404
\* otherwise; whatever the other records are.
C16_OtherSessionsUntouched ==
    [][\A t \in TaskIds :
          SessionMoves(t) =>
              LET X == tasks'[t].data.connection_id
                  present == Contains(active_connections, X)
                  blank == tasks'[t].data.text \in BlankTexts
              IN  /\ \A k \in DOMAIN active_connections :
                         PyStr(k) # X =>
                             /\ k \in DOMAIN active_connections'
                             /\ active_connections'[k] = active_connections[k]
                  /\ Processes(t, "speak") =>
                         CASE ~present ->
                                  tasks'[t].resp =
                                      ErrorResponse(400, "Invalid connection")
                           [] present /\ blank ->
                                  tasks'[t].resp =
                                      ErrorResponse(400, "No text provided")
                           [] OTHER -> tasks'[t].pc = "mark"
                  /\ Processes(t, "disconnect") =>
                         IF present
                         THEN tasks'[t].pc = "del"
                         ELSE tasks'[t].resp =
                                  ErrorResponse(404, "Connection not found")
      ]_vars

\* A speak and a disconnect on one identifier were both answered 200 while
\* another record stayed in the registry, not speaking.
C16_Witness ==
    \E s \in TaskIds, d \in Disconnects, k \in DOMAIN active_connections :
        /\ Returned(s, "speak", 200)
        /\ tasks[s].data.connection_id = tasks[d].data.connection_id
        /\ tasks[s].data.connection_id # PyStr(k)
        /\ ~active_connections[k].speaking

\* C17: a speak that passed both validations writes the flag and only then
\* sleeps.  When the sleep ends (the handler is not cancelled in it) the
\* handler answers 200 {status: speaking} with the connection_id, text and
\* voice of the request, whether or not the record is still there, and
\* that step writes nothing: a record removed during the sleep stays
\* removed.
C17_SpeakAnswersAfterRemoval ==
    [][\A t \in TaskIds :
          /\ (tasks[t].pc = "mark" /\ tasks'[t].pc # "mark") =>
                 /\ tasks'[t].pc = "sleep"
                 /\ active_connections'[Payload(tasks[t].data.connection_id)]
                        .speaking
          /\ (tasks[t].pc = "sleep" /\ tasks'[t].pc # "sleep") =>
                 /\ active_connections' = active_connections
                 /\ tasks'[t].pc = "done"
                 /\ tasks'[t].exc # "CancelledError" =>
                        /\ tasks'[t].exc = ""
                        /\ tasks'[t].resp =
                               JsonResponse(
                                   [connection_id |->
                                        tasks[t].data.connection_id,
                                    text |-> tasks[t].data.text,
                                    voice |-> PyStr("en-US-AriaNeural"),
                                    status |-> "speaking"])
      ]_vars

\* A speak was answered 200 for an identifier whose record a disconnect has
\* removed, while another speak that wrote the flag of that record is
\* still in its sleep: the record went while a speak slept.
C17_Witness ==
    \E s, r \in TaskIds, d \in Disconnects :
        /\ Returned(s, "speak", 200)
        /\ tasks[r].kind = "speak"
        /\ tasks[r].pc = "sleep"
        /\ tasks[s].data.connection_id = tasks[d].data.connection_id
        /\ tasks[r].data.connection_id = tasks[d].data.connection_id
        /\ ~Contains(active_connections, tasks[d].data.connection_id)

=============================================================================
